---- MODULE Spec2Model ----
(***************************************************************************)
(* The frame lifecycle controller of src/main.rs: the Application struct   *)
(* and its ApplicationHandler implementation (resumed, window_event).      *)
(* The windowing layer and the GPU backend are the environment: they       *)
(* deliver events serially and decide the outcome of every fallible call.  *)
(***************************************************************************)
EXTENDS Integers, Sequences, FiniteSets, TLC

\* Bounds of the model.
MaxEvents == 4
MaxDim == 2

\* Sizes the platform may report (u32 widths and heights, i32 canvas client sizes).
Dims == 0..MaxDim
\* Device pixel ratios, in halves: 1.0 and 1.5.
ScaleFactors == {2, 3}
\* formats[0] of the surface capabilities, chosen by the backend.
Formats == {"Bgra8UnormSrgb", "Rgba8Unorm"}
\* cfg(target_arch = "wasm32") or not.
Targets == {"native", "wasm32"}

\* Option<T>: None is the empty sequence, Some(x) the one-element sequence.
None == <<>>
Some(x) == <<x>>
unwrap(o) == o[1]

VARIABLES
    target,           \* the build variant
    window,           \* Application.window: Option<window id>
    surface,          \* Application.surface: Option<[id, window]>
    surface_config,   \* Application.surface_config: Option<[width, height, format]>
    render_pipeline,  \* Application.render_pipeline: Option<[format]>
    applied,          \* GPU side: the configuration last applied to the surface held
    windowsCreated,   \* windows the event loop has created so far
    surfacesCreated,  \* surfaces the GPU instance has created so far
    exiting,          \* event_loop.exit() has been called
    closed,           \* history: CloseRequested has been handled
    pc,               \* "running", "panicked" (a handler panicked) or "exited" (run_app returned)
    nEvents,          \* events handled so far
    last,             \* history: the event handled last, which fields it found, the calls it made
    lastResize,       \* history: the Resized event handled last
    resizesHandled,   \* history: Resized events handled so far
    redrawsRequested, \* history: calls of window.request_redraw() so far
    trace             \* history: Some(every call made so far) when the run is traced

vars == <<target, window, surface, surface_config, render_pipeline, applied,
          windowsCreated, surfacesCreated, exiting, closed, pc, nEvents, last,
          lastResize, resizesHandled, redrawsRequested, trace>>

fields == <<window, surface, surface_config, render_pipeline>>

\* One call made by a handler: the operation, the object it is made on, and a size.
Op(name, id, w, h) == [op |-> name, id |-> id, width |-> w, height |-> h]

\* Which of the optional fields are Some.
Has == [window |-> window # None, surface |-> surface # None,
        surface_config |-> surface_config # None,
        render_pipeline |-> render_pipeline # None]

\* The controller is Active: window, surface and pipeline all exist.
Active(has) == has.window /\ has.surface /\ has.render_pipeline

Handled(ev, w, h, acquired, log) ==
    [event |-> ev, w |-> w, h |-> h, acquired |-> acquired, had |-> Has, ops |-> log]

\* The number of calls of one operation in a log.
Count(log, name) == Cardinality({i \in DOMAIN log : log[i].op = name})

\* The history kept of one handler run: what it was, and the calls it made.
Record(ev, w, h, acquired, log) ==
    /\ last' = Handled(ev, w, h, acquired, log)
    /\ resizesHandled' = resizesHandled + (IF ev = "Resized" THEN 1 ELSE 0)
    /\ redrawsRequested' = redrawsRequested + Count(log, "request_redraw")
    /\ trace' = IF trace = None THEN None ELSE Some(unwrap(trace) \o log)

\* max with the clamp left out: the value is passed through.
max_unclamped(a, b) == a

\* u32::max
max(a, b) == IF a >= b THEN a ELSE b

\* A handler runs only while run_app is dispatching events.
Deliverable == pc = "running" /\ nEvents < MaxEvents

\* The state after Application::default(): no window, no surface, no pipeline.
Start ==
    /\ target \in Targets
    /\ window = None
    /\ surface = None
    /\ surface_config = None
    /\ render_pipeline = None
    /\ applied = None
    /\ windowsCreated = 0
    /\ surfacesCreated = 0
    /\ exiting = FALSE
    /\ closed = FALSE
    /\ pc = "running"
    /\ nEvents = 0
    /\ last = [event |-> "none", w |-> 0, h |-> 0, acquired |-> FALSE,
               had |-> [window |-> FALSE, surface |-> FALSE,
                        surface_config |-> FALSE, render_pipeline |-> FALSE],
               ops |-> <<>>]
    /\ lastResize = None
    /\ resizesHandled = 0
    /\ redrawsRequested = 0

Init == Start /\ trace = None

\* close_ops with the exit signalled before the window is released.
close_ops_exit_first(win) ==
    <<Op("exit", 0, 0, 0),
      Op("take_window", IF win = None THEN 0 ELSE unwrap(win), 0, 0)>>

\* The calls of the close handler: self.window.take(), then event_loop.exit().
close_ops(win) ==
    <<Op("take_window", IF win = None THEN 0 ELSE unwrap(win), 0, 0),
      Op("exit", 0, 0, 0)>>

\* CloseRequested releasing the surface along with the window.
CloseRequested_drop_surface ==
    /\ Deliverable
    /\ window' = None
    /\ surface' = None
    /\ exiting' = TRUE
    /\ closed' = TRUE
    /\ Record("CloseRequested", 0, 0, FALSE, close_ops(window))
    /\ nEvents' = nEvents + 1
    /\ UNCHANGED <<target, surface_config, render_pipeline, applied,
                   windowsCreated, surfacesCreated, pc, lastResize>>

\* WindowEvent::CloseRequested
CloseRequested ==
    /\ Deliverable
    /\ window' = None
    /\ exiting' = TRUE
    /\ closed' = TRUE
    /\ Record("CloseRequested", 0, 0, FALSE, close_ops(window))
    /\ nEvents' = nEvents + 1
    /\ UNCHANGED <<target, surface, surface_config, render_pipeline, applied,
                   windowsCreated, surfacesCreated, pc, lastResize>>

\* configure left out: the surface keeps the configuration it had.
configure_dropped(conf) == applied

\* Surface::configure(device, conf): conf becomes the configuration in effect on
\* the surface.
configure(conf) == Some(conf)

\* LogicalSize::to_physical(factor) on one dimension: the product rounded to the
\* nearest pixel (halves away from zero); f2 is the scale factor in halves.
to_physical(v, f2) == (v * f2 + 1) \div 2

\* The size resumed() hands to get_default_config: the window's inner size clamped
\* to at least 1, overwritten on wasm32 by the canvas client size in physical pixels.
initial_size(t, w, h, cw, ch, f2) ==
    IF t = "wasm32"
    THEN [width |-> to_physical(cw, f2), height |-> to_physical(ch, f2)]
    ELSE [width |-> max(w, 1), height |-> max(h, 1)]

\* The canvas metrics are read on wasm32 only; there they overwrite the inner
\* size, whose value then reaches nothing.
InnerDims(t) == IF t = "wasm32" THEN {0} ELSE Dims
CanvasDims(t) == IF t = "wasm32" THEN Dims ELSE {0}
CanvasFactors(t) == IF t = "wasm32" THEN ScaleFactors ELSE {2}

\* The call of resumed() that fails, if any. A zero-area configure is either
\* rejected by the backend's validation (a panic) or applied as it is.
ResumedOutcomes(size) ==
    {"ok", "create_window", "create_surface", "get_default_config"}
        \cup (IF size.width = 0 \/ size.height = 0 THEN {"configure"} ELSE {})

\* ApplicationHandler::resumed. It has no guard on the fields: whenever it is
\* delivered it creates a window, a surface and a pipeline.
resumed ==
    /\ Deliverable
    /\ \E w \in InnerDims(target), h \in InnerDims(target),
          cw \in CanvasDims(target), ch \in CanvasDims(target),
          f2 \in CanvasFactors(target), fmt \in Formats :
        LET size == initial_size(target, w, h, cw, ch, f2)
            win == windowsCreated + 1
            sid == surfacesCreated + 1
            config == [width |-> size.width, height |-> size.height,
                       format |-> fmt, present_mode |-> "Fifo"]
            rw == IF target = "wasm32" THEN cw ELSE w
            rh == IF target = "wasm32" THEN ch ELSE h
            s1 == <<Op("create_window", win, 0, 0)>>
                    \o (IF target = "wasm32"
                        THEN <<Op("canvas_set_size", win, size.width, size.height)>>
                        ELSE <<>>)
            s2 == s1 \o <<Op("create_surface", sid, 0, 0)>>
            s3 == s2 \o <<Op("get_default_config", sid, size.width, size.height)>>
            s4 == s3 \o <<Op("configure", sid, size.width, size.height)>>
            s5 == s4 \o <<Op("create_shader_module", 0, 0, 0),
                          Op("create_pipeline_layout", 0, 0, 0),
                          Op("get_capabilities", sid, 0, 0),
                          Op("create_render_pipeline", 0, 0, 0)>>
        IN \E outcome \in ResumedOutcomes(size) :
            /\ nEvents' = nEvents + 1
            /\ UNCHANGED <<target, exiting, closed, lastResize>>
            /\ CASE outcome = "create_window" ->
                    /\ pc' = "panicked"
                    /\ Record("resumed", rw, rh, FALSE,
                                       <<Op("create_window", 0, 0, 0)>>)
                    /\ UNCHANGED <<fields, applied, windowsCreated, surfacesCreated>>
                 [] outcome = "create_surface" ->
                    /\ pc' = "panicked"
                    /\ windowsCreated' = win
                    /\ Record("resumed", rw, rh, FALSE,
                                       s1 \o <<Op("create_surface", 0, 0, 0)>>)
                    /\ UNCHANGED <<fields, applied, surfacesCreated>>
                 [] outcome = "get_default_config" ->
                    /\ pc' = "panicked"
                    /\ windowsCreated' = win
                    /\ surfacesCreated' = sid
                    /\ Record("resumed", rw, rh, FALSE, s3)
                    /\ UNCHANGED <<fields, applied>>
                 [] outcome = "configure" ->
                    /\ pc' = "panicked"
                    /\ windowsCreated' = win
                    /\ surfacesCreated' = sid
                    /\ Record("resumed", rw, rh, FALSE, s4)
                    /\ UNCHANGED <<fields, applied>>
                 [] outcome = "ok" ->
                    /\ windowsCreated' = win
                    /\ surfacesCreated' = sid
                    /\ applied' = configure(config)
                    /\ window' = Some(win)
                    /\ surface' = Some([id |-> sid, window |-> win])
                    /\ surface_config' = Some(config)
                    /\ render_pipeline' = Some([format |-> fmt])
                    /\ Record("resumed", rw, rh, FALSE, s5)
                    /\ UNCHANGED pc

\* resized_config rebuilt from a default configuration instead of updated in place.
resized_config_default(conf, w, h) ==
    [width |-> max(w, 1), height |-> max(h, 1),
     format |-> "Rgba8Unorm", present_mode |-> "Fifo"]

\* The stored configuration after a resize to (w, h): width and height are
\* replaced by the new size clamped to at least 1, the rest is kept.
resized_config(conf, w, h) == [conf EXCEPT !.width = max(w, 1), !.height = max(h, 1)]

\* resize_ops with the redraw request left out.
resize_ops_no_request(sid, conf, win) ==
    <<Op("configure", sid, conf.width, conf.height)>>

\* The calls of the resize handler once configuration and surface are found:
\* configure the surface, then request a redraw if the window is there.
resize_ops(sid, conf, win) ==
    <<Op("configure", sid, conf.width, conf.height)>>
        \o (IF win # None THEN <<Op("request_redraw", unwrap(win), 0, 0)>> ELSE <<>>)

\* WindowEvent::Resized(new_size) with new_size = (w, h)
ResizedTo(w, h) ==
    /\ Deliverable
    /\ nEvents' = nEvents + 1
    /\ UNCHANGED <<target, window, surface, render_pipeline, windowsCreated,
                   surfacesCreated, exiting, closed>>
    /\ IF surface_config = None
       THEN \* expect("valid config") on the stored configuration
            /\ pc' = "panicked"
            /\ Record("Resized", w, h, FALSE, <<>>)
            /\ UNCHANGED <<surface_config, applied, lastResize>>
       ELSE LET conf == resized_config(unwrap(surface_config), w, h)
            IN /\ surface_config' = Some(conf)
               /\ IF surface = None
                  THEN \* expect("valid config") on the surface
                       /\ pc' = "panicked"
                       /\ Record("Resized", w, h, FALSE, <<>>)
                       /\ UNCHANGED <<applied, lastResize>>
                  ELSE /\ applied' = configure(conf)
                       /\ Record("Resized", w, h, FALSE,
                                          resize_ops(unwrap(surface).id, conf, window))
                       /\ lastResize' = Some([w |-> w, h |-> h, active |-> Active(Has)])
                       /\ UNCHANGED pc

\* WindowEvent::Resized with any size the platform may report
Resized == \E w \in Dims, h \in Dims : ResizedTo(w, h)

\* missing_resource without the check of the window.
missing_resource_no_window(win, surf, pipe) ==
    IF surf = None THEN "surface"
    ELSE IF pipe = None THEN "pipeline"
    ELSE "none"

\* The first of window, surface, pipeline that the redraw handler finds absent.
missing_resource(win, surf, pipe) ==
    IF win = None THEN "window"
    ELSE IF surf = None THEN "surface"
    ELSE IF pipe = None THEN "pipeline"
    ELSE "none"

\* redraw_ops with frame.present() left out.
redraw_ops_no_present(s, conf, acquired) ==
    IF ~acquired
    THEN <<Op("get_current_texture", s, 0, 0)>>
    ELSE <<Op("get_current_texture", s, conf.width, conf.height),
           Op("create_view", s, 0, 0),
           Op("create_command_encoder", 0, 0, 0),
           Op("begin_render_pass", s, 0, 0),
           Op("set_pipeline", 0, 0, 0),
           Op("draw", 0, 3, 1),
           Op("finish", 0, 0, 0),
           Op("submit", 0, 0, 0)>>

\* redraw_ops with a failed acquisition answered by reconfigure-and-retry.
redraw_ops_retry(s, conf, acquired) ==
    IF ~acquired
    THEN <<Op("get_current_texture", s, 0, 0),
           Op("configure", s, conf.width, conf.height),
           Op("get_current_texture", s, 0, 0)>>
    ELSE <<Op("get_current_texture", s, conf.width, conf.height),
           Op("create_view", s, 0, 0),
           Op("create_command_encoder", 0, 0, 0),
           Op("begin_render_pass", s, 0, 0),
           Op("set_pipeline", 0, 0, 0),
           Op("draw", 0, 3, 1),
           Op("finish", 0, 0, 0),
           Op("submit", 0, 0, 0),
           Op("present", s, conf.width, conf.height)>>

\* redraw_ops with the frame presented before the commands are submitted.
redraw_ops_present_first(s, conf, acquired) ==
    IF ~acquired
    THEN <<Op("get_current_texture", s, 0, 0)>>
    ELSE <<Op("get_current_texture", s, conf.width, conf.height),
           Op("create_view", s, 0, 0),
           Op("create_command_encoder", 0, 0, 0),
           Op("begin_render_pass", s, 0, 0),
           Op("set_pipeline", 0, 0, 0),
           Op("draw", 0, 3, 1),
           Op("finish", 0, 0, 0),
           Op("present", s, conf.width, conf.height),
           Op("submit", 0, 0, 0)>>

\* redraw_ops with the redraw re-requested after present (window.request_redraw()).
redraw_ops_self_request(s, conf, acquired) ==
    IF ~acquired
    THEN <<Op("get_current_texture", s, 0, 0)>>
    ELSE <<Op("get_current_texture", s, conf.width, conf.height),
           Op("create_view", s, 0, 0),
           Op("create_command_encoder", 0, 0, 0),
           Op("begin_render_pass", s, 0, 0),
           Op("set_pipeline", 0, 0, 0),
           Op("draw", 0, 3, 1),
           Op("finish", 0, 0, 0),
           Op("submit", 0, 0, 0),
           Op("present", s, conf.width, conf.height),
           Op("request_redraw", s, 0, 0)>>

\* The calls of one redraw on surface s once its resources are found present:
\* the frame is acquired (or not) under configuration conf.
redraw_ops(s, conf, acquired) ==
    IF ~acquired
    THEN <<Op("get_current_texture", s, 0, 0)>>
    ELSE <<Op("get_current_texture", s, conf.width, conf.height),
           Op("create_view", s, 0, 0),
           Op("create_command_encoder", 0, 0, 0),
           Op("begin_render_pass", s, 0, 0),
           Op("set_pipeline", 0, 0, 0),
           Op("draw", 0, 3, 1),
           Op("finish", 0, 0, 0),
           Op("submit", 0, 0, 0),
           Op("present", s, conf.width, conf.height)>>

\* WindowEvent::RedrawRequested
RedrawRequested ==
    /\ Deliverable
    /\ nEvents' = nEvents + 1
    /\ UNCHANGED <<target, fields, applied, windowsCreated, surfacesCreated, closed,
                   lastResize>>
    /\ IF missing_resource(window, surface, render_pipeline) # "none"
       THEN /\ exiting' = TRUE
            /\ Record("RedrawRequested", 0, 0, FALSE, <<Op("exit", 0, 0, 0)>>)
            /\ UNCHANGED pc
       ELSE \E acquired \in BOOLEAN :
            LET sid == unwrap(surface).id
                conf == unwrap(applied)
            IN /\ Record("RedrawRequested", 0, 0, acquired,
                                  redraw_ops(sid, conf, acquired))
               /\ pc' = IF acquired THEN pc ELSE "panicked"
               /\ UNCHANGED exiting

\* Any other WindowEvent: the `_ => ()` arm.
OtherEvent ==
    /\ Deliverable
    /\ nEvents' = nEvents + 1
    /\ Record("Other", 0, 0, FALSE, <<>>)
    /\ UNCHANGED <<target, fields, applied, windowsCreated, surfacesCreated, exiting,
                   closed, pc, lastResize>>

\* EventLoop::run_app returns some time after exit() was called; events already
\* queued may still be dispatched before it does.
run_app ==
    /\ pc = "running"
    /\ exiting
    /\ pc' = "exited"
    /\ UNCHANGED <<target, fields, applied, windowsCreated, surfacesCreated, exiting,
                   closed, nEvents, last, lastResize, resizesHandled, redrawsRequested,
                   trace>>

Next ==
    \/ resumed
    \/ CloseRequested
    \/ Resized
    \/ RedrawRequested
    \/ OtherEvent
    \/ run_app

Spec == Init /\ [][Next]_vars

\* The scenario activated, resized(1920,1080), redrawRequested, closeRequested,
\* delivered in this order to a fresh controller, every call of the run traced.
ScenarioSize == [width |-> 1920, height |-> 1080]

InitScenario == Start /\ trace = Some(<<>>)

ScenarioActivated == nEvents = 0 /\ resumed
ScenarioResized == nEvents = 1 /\ ResizedTo(ScenarioSize.width, ScenarioSize.height)
ScenarioRedraw == nEvents = 2 /\ RedrawRequested
ScenarioClose == nEvents = 3 /\ CloseRequested
ScenarioExit == nEvents = 4 /\ run_app

NextScenario ==
    \/ ScenarioActivated
    \/ ScenarioResized
    \/ ScenarioRedraw
    \/ ScenarioClose
    \/ ScenarioExit

SpecScenario == InitScenario /\ [][NextScenario]_vars

-----------------------------------------------------------------------------
\* Properties of the controller.

\* The calls of a log that are GPU calls (device, queue, surface, frame, encoder).
GpuOps == {"create_surface", "get_default_config", "configure", "create_shader_module",
           "create_pipeline_layout", "get_capabilities", "create_render_pipeline",
           "get_current_texture", "create_view", "create_command_encoder",
           "begin_render_pass", "set_pipeline", "draw", "finish", "submit", "present"}

\* The number of GPU calls in a log.
GpuCalls(log) == Cardinality({i \in DOMAIN log : log[i].op \in GpuOps})

\* A step in which one event is handled.
HandlerStep == nEvents' = nEvents + 1

\* The size a report of v must be clamped to.
AtLeastOne(v) == IF v = 0 THEN 1 ELSE v

\* The present call of a log, if it holds exactly one.
Presented(log) == CHOOSE i \in DOMAIN log : log[i].op = "present"

\* C1: when a Resized(w,h) was handled while Active and a later redraw presents a
\* frame with no other Resized in between, the frame is acquired under a
\* configuration of width max(w,1) and height max(h,1).
C1_ResizeBeforeRedraw ==
    (/\ last.event = "RedrawRequested"
     /\ Count(last.ops, "present") = 1
     /\ lastResize # None
     /\ unwrap(lastResize).active)
    => /\ last.ops[Presented(last.ops)].width = AtLeastOne(unwrap(lastResize).w)
       /\ last.ops[Presented(last.ops)].height = AtLeastOne(unwrap(lastResize).h)

\* C2: resumed delivered while window, surface and pipeline exist is a no-op: it
\* makes no call, creates nothing and leaves the surface binding as it was.
C2_ResumedIdempotent ==
    [][(HandlerStep /\ last'.event = "resumed" /\ Active(Has) /\ pc' = "running")
        => (/\ last'.ops = <<>>
            /\ UNCHANGED <<fields, applied, windowsCreated, surfacesCreated>>)]_vars

\* C3 as stated: every redraw handled while Active makes exactly one submit and
\* exactly one present.
C3_AlwaysOneSubmitOnePresent ==
    (last.event = "RedrawRequested" /\ Active(last.had))
    => (Count(last.ops, "submit") = 1 /\ Count(last.ops, "present") = 1)

\* C3 as amended: a redraw handled while Active makes exactly one submit and one
\* present when its frame is acquired, and neither when the acquisition fails.
C3_OneSubmitOnePresent ==
    (last.event = "RedrawRequested" /\ Active(last.had))
    => IF last.acquired
       THEN Count(last.ops, "submit") = 1 /\ Count(last.ops, "present") = 1
       ELSE Count(last.ops, "submit") = 0 /\ Count(last.ops, "present") = 0

C3_Witness ==
    /\ last.event = "RedrawRequested"
    /\ Active(last.had)
    /\ last.acquired
    /\ Count(last.ops, "submit") = 1

\* C4: a redraw handled while window, surface or pipeline is absent makes no GPU
\* call, signals the event loop to exit and leaves the resource fields unchanged.
C4_RedrawWithoutResources ==
    [][(HandlerStep /\ last'.event = "RedrawRequested" /\ ~Active(Has))
        => (/\ GpuCalls(last'.ops) = 0
            /\ exiting'
            /\ pc' = pc
            /\ UNCHANGED <<fields, applied>>)]_vars

C4_Witness ==
    /\ last.event = "RedrawRequested"
    /\ last.had.surface
    /\ ~last.had.window
    /\ exiting

\* C5: a Resized(w,h) handled while a surface configuration exists applies to the
\* surface a configuration of width exactly max(w,1) and height exactly max(h,1).
C5_ResizeClamped ==
    (last.event = "Resized" /\ last.had.surface_config)
    => /\ Count(last.ops, "configure") = 1
       /\ \A i \in DOMAIN last.ops :
            last.ops[i].op = "configure"
            => /\ last.ops[i].width = AtLeastOne(last.w)
               /\ last.ops[i].height = AtLeastOne(last.h)
       /\ applied # None
       /\ unwrap(applied).width = AtLeastOne(last.w)
       /\ unwrap(applied).height = AtLeastOne(last.h)

C5_Witness ==
    /\ last.event = "Resized"
    /\ last.had.surface_config
    /\ last.w = 0
    /\ last.h = MaxDim
    /\ applied # None
    /\ unwrap(applied).width = 1

\* C6: a stored surface configuration always has width and height of at least 1,
\* and an activation that reports the size (0,0) binds the surface with at least
\* (1,1) without panicking once the platform has handed out window and surface.
C6_ConfigAtLeastOne ==
    /\ surface_config # None
       => (unwrap(surface_config).width >= 1 /\ unwrap(surface_config).height >= 1)
    /\ (/\ last.event = "resumed"
        /\ last.w = 0
        /\ last.h = 0
        /\ Count(last.ops, "configure") = 1)
       => (/\ pc # "panicked"
           /\ applied # None
           /\ unwrap(applied).width >= 1
           /\ unwrap(applied).height >= 1)

\* C7: once CloseRequested has been handled no later event makes a GPU call or
\* changes a field of the controller (stated of the handlers that return).
C7_ClosedIsTerminal ==
    [][(HandlerStep /\ closed /\ pc' = "running")
        => (GpuCalls(last'.ops) = 0 /\ UNCHANGED <<fields, applied>>)]_vars

\* C8: a Resized handled while no surface configuration exists makes no GPU call,
\* signals the event loop to exit and does not panic.
C8_ResizeBeforeActive ==
    (last.event = "Resized" /\ ~last.had.surface_config)
    => (GpuCalls(last.ops) = 0 /\ exiting /\ pc # "panicked")

\* C9: a redraw whose frame acquisition fails makes exactly one acquisition
\* attempt, no submit, no present and no configure.
C9_FailedAcquisition ==
    (last.event = "RedrawRequested" /\ Active(last.had) /\ ~last.acquired)
    => /\ Count(last.ops, "get_current_texture") = 1
       /\ Count(last.ops, "submit") = 0
       /\ Count(last.ops, "present") = 0
       /\ Count(last.ops, "configure") = 0
       /\ Len(last.ops) = 1

C9_Witness ==
    /\ last.event = "RedrawRequested"
    /\ Active(last.had)
    /\ ~last.acquired
    /\ Count(last.ops, "get_current_texture") = 1

\* C10: a failed frame acquisition does not terminate the run loop: the
\* controller goes on handling events.
C10_AcquisitionFailureSurvives ==
    (last.event = "RedrawRequested" /\ Active(last.had) /\ ~last.acquired)
    => pc = "running"

\* The operations of a log, in order.
Names(log) == [i \in DOMAIN log |-> log[i].op]

\* The position of the only call of an operation in a log.
Pos(log, name) == CHOOSE i \in DOMAIN log : log[i].op = name

\* C11: the close handler releases the window reference first and only then
\* signals exit; when it has run, exit is signalled and the window is not held.
C11_ReleaseBeforeExit ==
    last.event = "CloseRequested"
    => /\ Names(last.ops) = <<"take_window", "exit">>
       /\ window = None
       /\ exiting
       /\ last.had.window => last.ops[1].id >= 1

C11_Witness ==
    /\ last.event = "CloseRequested"
    /\ last.had.window
    /\ window = None
    /\ exiting

\* The GPU calls, the release of the window and the exit signal of a log.
IsTraced(o) == o.op \in GpuOps \cup {"take_window", "exit"}

\* What the scenario's trace must be: bind, reconfigure, one frame, release, exit.
ScenarioTraceOk(t) ==
    LET k == SelectSeq(t, IsTraced)
    IN /\ Names(k) = <<"create_surface", "get_default_config", "configure",
                       "create_shader_module", "create_pipeline_layout",
                       "get_capabilities", "create_render_pipeline",
                       "configure",
                       "get_current_texture", "create_view", "create_command_encoder",
                       "begin_render_pass", "set_pipeline", "draw", "finish",
                       "submit", "present",
                       "take_window", "exit">>
       /\ k[3].width = k[2].width /\ k[3].height = k[2].height
       /\ k[3].id = k[1].id
       /\ k[8].width = 1920 /\ k[8].height = 1080 /\ k[8].id = k[1].id
       /\ k[9].width = 1920 /\ k[9].height = 1080 /\ k[9].id = k[1].id
       /\ k[17].width = 1920 /\ k[17].height = 1080 /\ k[17].id = k[1].id
       /\ Count(t, "request_redraw") = 1
       /\ t[Len(t)].op = "exit"

C13_ResizeDefersFrame ==
    last.event = "Resized"
    => /\ Count(last.ops, "get_current_texture") = 0
       /\ Count(last.ops, "submit") = 0
       /\ Count(last.ops, "present") = 0
       /\ Active(last.had)
          => /\ Names(last.ops) = <<"configure", "request_redraw">>
             /\ last.ops[1].width = unwrap(applied).width
             /\ last.ops[1].height = unwrap(applied).height
             /\ last.ops[2].id = unwrap(window)
       /\ ~last.had.window => Count(last.ops, "request_redraw") = 0

C13_Witness ==
    /\ last.event = "Resized"
    /\ Active(last.had)
    /\ Count(last.ops, "request_redraw") = 1
    /\ Count(last.ops, "configure") = 1

\* C14: a successful redraw acquires the frame, records one render pass (set
\* pipeline, draw 3 vertices 1 instance), submits and then presents, in this
\* order, and presents the frame it acquired.
C14_RedrawOrder ==
    (last.event = "RedrawRequested" /\ last.acquired)
    => /\ Names(last.ops) = <<"get_current_texture", "create_view",
                              "create_command_encoder", "begin_render_pass",
                              "set_pipeline", "draw", "finish", "submit", "present">>
       /\ last.ops[6].width = 3 /\ last.ops[6].height = 1
       /\ last.ops[9].id = last.ops[1].id
       /\ last.ops[9].width = last.ops[1].width
       /\ last.ops[9].height = last.ops[1].height
       /\ last.ops[1].id = unwrap(surface).id

C14_Witness ==
    /\ last.event = "RedrawRequested"
    /\ last.acquired
    /\ Pos(last.ops, "submit") < Pos(last.ops, "present")
    /\ Pos(last.ops, "get_current_texture") < Pos(last.ops, "submit")

\* C15: the configuration in effect on the surface is the stored one whenever a
\* handler has returned, so every frame is acquired under the stored configuration.
C15_AppliedIsStored ==
    /\ surface_config # None => applied = surface_config
    /\ (last.event = "RedrawRequested" /\ last.acquired)
       => /\ last.ops[1].width = unwrap(surface_config).width
          /\ last.ops[1].height = unwrap(surface_config).height

C15_Witness ==
    /\ last.event = "RedrawRequested"
    /\ last.acquired
    /\ lastResize # None
    /\ applied = surface_config
    /\ last.ops[1].width = AtLeastOne(unwrap(lastResize).w)

\* C16: a Resized changes only width and height of the stored configuration:
\* format, presentation mode, surface, pipeline and window stay, and the
\* pipeline's format stays the format of the surface configuration.
C16_ResizeKeepsFormat ==
    [][(HandlerStep /\ last'.event = "Resized")
        => /\ UNCHANGED <<window, surface, render_pipeline>>
           /\ surface_config # None
              => /\ surface_config' # None
                 /\ unwrap(surface_config').format = unwrap(surface_config).format
                 /\ unwrap(surface_config').present_mode
                      = unwrap(surface_config).present_mode
                 /\ render_pipeline # None
                 /\ unwrap(render_pipeline').format = unwrap(surface_config').format]_vars

C16_Witness ==
    /\ last.event = "Resized"
    /\ resizesHandled = 2
    /\ surface_config # None
    /\ unwrap(surface_config).width = MaxDim
    /\ unwrap(surface_config).format = "Bgra8UnormSrgb"
    /\ unwrap(render_pipeline).format = "Bgra8UnormSrgb"

\* C17: surface, stored configuration and pipeline are all present or all absent,
\* and a present window implies all three.
C17_ResourcesTogether ==
    /\ (surface # None) <=> (surface_config # None)
    /\ (surface # None) <=> (render_pipeline # None)
    /\ window # None => surface # None

C17_Witness ==
    /\ closed
    /\ window = None
    /\ surface # None
    /\ surface_config # None
    /\ render_pipeline # None

\* C18: only a resize handler that finds the window requests a redraw, and at
\* most once, so the redraws requested never exceed the Resized events handled.
C18_RedrawRequestedByResizeOnly ==
    /\ Count(last.ops, "request_redraw") <= 1
    /\ Count(last.ops, "request_redraw") = 1
       => (last.event = "Resized" /\ last.had.window)
    /\ redrawsRequested <= resizesHandled

C18_Witness ==
    /\ redrawsRequested = 1
    /\ resizesHandled = 2
    /\ last.event = "Resized"

\* C19: a handler signals exit if and only if it handles CloseRequested or a
\* RedrawRequested that finds window, surface or pipeline absent.
C19_ExitOnlyOnCloseOrMissing ==
    [][HandlerStep
        => /\ Count(last'.ops, "exit") \in {0, 1}
           /\ Count(last'.ops, "exit") = 1
              <=> \/ last'.event = "CloseRequested"
                  \/ last'.event = "RedrawRequested" /\ ~Active(Has)
           /\ exiting' = (exiting \/ Count(last'.ops, "exit") = 1)]_vars

C19_Witness ==
    /\ last.event = "RedrawRequested"
    /\ ~last.had.surface
    /\ exiting
    /\ ~closed
====
